---- MODULE Spec2Model ----
(***************************************************************************)
(* Model of App.js: the analyzeImage request / response / error lifecycle, *)
(* the three UI handlers that call it (onRunMock, onCallEndpoint and the   *)
(* Run Tests button), the speech sink and the shared React state slots.    *)
(*                                                                         *)
(* JavaScript strings are sequences of text pieces, so that startsWith,    *)
(* includes, template literals and String(err) are computed rather than    *)
(* assumed.  The empty string is << >> (falsy in JavaScript).              *)
(* One step of the model is one run-to-completion turn of the JavaScript   *)
(* event loop: a button press or a settled promise together with every     *)
(* continuation that runs before control returns to the event loop.        *)
(***************************************************************************)
EXTENDS Integers, Sequences, FiniteSets, TLC

\* Number of analyzeImage calls a run of the model may start.
MaxCalls == 2

DEFAULT_USE_MOCK_BACKEND == TRUE

----------------------------------------------------------------------------
\* String helpers (String.prototype.startsWith / includes on piece sequences)

StartsWith(s, p) == Len(s) >= Len(p) /\ SubSeq(s, 1, Len(p)) = p

Includes(s, p) ==
  \E i \in 1..(Len(s) + 1) :
    i + Len(p) - 1 <= Len(s) /\ SubSeq(s, i, i + Len(p) - 1) = p

\* The literals of App.js
MockPrefix     == <<"Mock:">>
MockText       == <<"Mock:", " person 2m ahead, chair to your right, sign reads 'Exit'.">>
NoEndpointKey  == <<"No endpoint configured">>
NoEndpointText == <<"No endpoint configured", ". Set endpoint URL and disable mock mode to call your server.">>
DefaultSpoken  == <<"No description available.">>
FailedText     == <<"Analysis failed. See debug.">>
FailedPrefix   == <<"Analysis failed: ">>

Test1Name == <<"Mock backend returns expected string">>
Test2Name == <<"No-endpoint yields helpful message">>

\* Values the user can type into the endpoint field
Endpoints == { << >>, <<"https://srv/vision">> }

\* What the server (or the transport) can answer
Statuses == {200, 500}

StatusText(n) == IF n = 200 THEN "200" ELSE IF n = 500 THEN "500" ELSE "?"

RespOk(status) == status >= 200 /\ status <= 299

ErrorBodies == { <<"boom">> }

\* A JSON field is absent (undefined) or holds a string.
Absent     == [has |-> FALSE, v |-> << >>]
Str(s)     == [has |-> TRUE, v |-> s]
SpokenVals == { Absent, Str(<< >>), Str(<<"X">>), Str(FailedText) }
TextVals   == { Absent, Str(<< >>), Str(<<"Y">>) }
JsonBodies == [spoken_text : SpokenVals, text : TextVals]

\* JavaScript truthiness of a field: undefined and '' are falsy.
Truthy(f) == f.has /\ f.v # << >>

\* Error objects: a name and a message.  String(err) is "name: message".
Err(n, m) == [name |-> n, message |-> m]
ErrString(e) == IF e.message = << >> THEN <<e.name>> ELSE <<e.name, ": ">> \o e.message

FetchRejected == Err("TypeError", <<"Failed to fetch">>)
BodyReadError == Err("TypeError", <<"body stream error">>)
JsonParseError == Err("SyntaxError", <<"Unexpected token">>)

\* lastError is null or a string
Null       == [null |-> TRUE, v |-> << >>]
ErrVal(s)  == [null |-> FALSE, v |-> s]

----------------------------------------------------------------------------
VARIABLES
  useMock,         \* useState(DEFAULT_USE_MOCK_BACKEND)
  sendAsFormData,  \* useState(DEFAULT_SEND_AS_FORMDATA)
  endpoint,        \* useState('')
  processing,      \* useState(false)
  resultText,      \* useState('')
  tests,           \* useState([])
  lastError,       \* useState(null)
  utter,           \* the string the speech sink received last (newest preempts)
  calls,           \* every analyzeImage invocation: its closure, position and result
  ncalls,          \* number of invocations started so far
  solo             \* history: the call started last began with no other in flight

vars == <<useMock, sendAsFormData, endpoint, processing, resultText, tests,
          lastError, utter, calls, ncalls, solo>>

CallIds == 1..MaxCalls

\* An invocation slot that has not been used yet.
IdleCall ==
  [st |-> "idle", role |-> "none", owner |-> 0, forceMock |-> "undefined",
   um |-> FALSE, ep |-> << >>, fd |-> FALSE,
   path |-> "none", status |-> 0, net |-> 0, req |-> "none",
   said |-> << >>, ret |-> << >>, wrote |-> << >>, failed |-> FALSE,
   procIn |-> FALSE, procOut |-> FALSE]

\* The React state slots analyzeImage and the handlers write, as one record,
\* so that the writes of one event-loop turn compose in program order.
Store ==
  [processing |-> processing, resultText |-> resultText, lastError |-> lastError,
   tests |-> tests, utter |-> utter]

----------------------------------------------------------------------------
\* speakText: nothing for a falsy text; otherwise the utterance replaces the
\* one being spoken (web) or is logged (native); errors are swallowed.
speakText(s, text) == IF text = << >> THEN s ELSE [s EXCEPT !.utter = text]

\* Variant: the override is ignored and the configured mode always decides.
useMockModeIgnoresForce(forceMock, um) == um

\* const useMockMode = typeof forceMock === 'boolean' ? forceMock : useMock;
\* forceMock is "true", "false" or "undefined".
useMockMode(forceMock, um) ==
  IF forceMock = "true" THEN TRUE
  ELSE IF forceMock = "false" THEN FALSE
  ELSE um

\* if (!endpoint)
EndpointMissing(ep) == ep = << >>

\* The path analyzeImage takes, in the order the code tests it.
Route(forceMock, um, ep) ==
  IF useMockMode(forceMock, um) THEN "mock"
  ELSE IF EndpointMissing(ep) THEN "noEndpoint"
  ELSE "live"

\* Variant: ?? in place of ||, so that an empty string is not skipped.
ExtractSpokenNullish(json) ==
  IF json.spoken_text.has THEN json.spoken_text.v
  ELSE IF json.text.has THEN json.text.v
  ELSE DefaultSpoken

\* json?.spoken_text || json?.text || 'No description available.'
ExtractSpoken(json) ==
  IF Truthy(json.spoken_text) THEN json.spoken_text.v
  ELSE IF Truthy(json.text) THEN json.text.v
  ELSE DefaultSpoken

\* Variant: the status code is left out of the message.
ServerErrorNoStatus(status, t) == Err("Error", <<"Server error: ">> \o t)

\* new Error(`Server error ${resp.status}: ${t}`)
ServerError(status, t) == Err("Error", <<"Server error ", StatusText(status), ": ">> \o t)

\* What a path does when it ends: the result text it sets, the text it hands
\* to speakText (<< >>: none), the error detail it records, what it does to
\* the processing flag, and the value it returns (or that it throws).
Effect(txt, say, setErr, err, proc, ret) ==
  [txt |-> txt, say |-> say, setErr |-> setErr, err |-> err, proc |-> proc,
   ret |-> ret, threw |-> FALSE]

\* An exception that leaves analyzeImage: no state is written.
Thrown(e) ==
  [txt |-> << >>, say |-> << >>, setErr |-> FALSE, err |-> << >>, proc |-> "keep",
   ret |-> ErrString(e), threw |-> TRUE]

\* Lines 46-50: the mock path after the delay.
MockPathEnd == Effect(MockText, MockText, FALSE, << >>, "off", MockText)

\* Variant: the unconfigured-endpoint path also calls setProcessing(false).
NoEndpointPathClearsProcessing ==
  Effect(NoEndpointText, NoEndpointText, FALSE, << >>, "off", NoEndpointText)

\* Lines 54-57: the unconfigured-endpoint path.
NoEndpointPath == Effect(NoEndpointText, NoEndpointText, FALSE, << >>, "keep", NoEndpointText)

\* Lines 84-89: the success branch of the live path.
LiveSuccess(json) ==
  LET spoken == ExtractSpoken(json)
  IN Effect(spoken, spoken, FALSE, << >>, "off", spoken)

\* Variant: resp.json() sits outside the try block, so a parse error escapes.
LiveCatchMissesParse(e) ==
  IF e.name = "SyntaxError" THEN Thrown(e)
  ELSE Effect(FailedText, << >>, TRUE, ErrString(e), "off",
              FailedPrefix \o (IF e.message # << >> THEN e.message ELSE ErrString(e)))

\* Variant: the catch block does not call setProcessing(false).
LiveCatchLeavesProcessing(e) ==
  Effect(FailedText, << >>, TRUE, ErrString(e), "keep",
         FailedPrefix \o (IF e.message # << >> THEN e.message ELSE ErrString(e)))

\* Lines 90-96: the catch block of the live path.
LiveCatch(e) ==
  Effect(FailedText, << >>, TRUE, ErrString(e), "off",
         FailedPrefix \o (IF e.message # << >> THEN e.message ELSE ErrString(e)))

\* Variant: a result is written only into an empty slot (first write wins).
setResultTextIfEmpty(cur, txt) == IF cur = << >> THEN txt ELSE cur

\* setResultText: the slot holds the value written last.
setResultText(cur, txt) == txt

\* The writes at the end of a path, in program order, applied to store s.
ApplyEffect(s, eff) ==
  IF eff.threw THEN s
  ELSE
    LET s1 == IF eff.setErr THEN [s EXCEPT !.lastError = ErrVal(eff.err)] ELSE s
        s2 == [s1 EXCEPT !.resultText = setResultText(s1.resultText, eff.txt)]
        s3 == speakText(s2, eff.say)
    IN IF eff.proc = "off" THEN [s3 EXCEPT !.processing = FALSE]
       ELSE IF eff.proc = "on" THEN [s3 EXCEPT !.processing = TRUE]
       ELSE s3

\* Variant: setLastError(null) is missing at the start of a call.
EnterAnalyzeKeepsError(s) == [s EXCEPT !.resultText = << >>]

\* Lines 40-41: every call first clears the error and the result text.
EnterAnalyze(s) == [s EXCEPT !.lastError = Null, !.resultText = << >>]

\* The record of a call once its path has ended with effect eff, s1 being the
\* store after the effect.
Returned(call, s1, eff) ==
  [call EXCEPT !.st = IF eff.threw THEN "threw" ELSE "done",
               !.ret = eff.ret,
               !.said = IF eff.threw \/ eff.say = << >> THEN @ ELSE Append(@, eff.say),
               !.wrote = eff.txt,
               !.failed = eff.setErr,
               !.procOut = s1.processing]

\* analyzeImage from its entry to its first await or to its return.  um, ep
\* and fd are the useMock, endpoint and sendAsFormData of the render whose
\* closure is running.  Yields the store and the call's record.  The record
\* keeps the closure only for Test 1 of runTests, whose Test 2 reads it again;
\* no other call reads it after this point.
StartCall(s, role, owner, forceMock, um, ep, fd) ==
  LET route == Route(forceMock, um, ep)
      s0    == EnterAnalyze(s)
      keep  == role = "test1"
      c0    == [IdleCall EXCEPT !.role = role, !.owner = owner,
                                !.forceMock = forceMock,
                                !.um = IF keep THEN um ELSE @,
                                !.ep = IF keep THEN ep ELSE @,
                                !.fd = IF keep THEN fd ELSE @,
                                !.path = route, !.procIn = s.processing]
      son   == [s0 EXCEPT !.processing = TRUE]
  IN CASE route = "mock" ->
            [s |-> son,
             c |-> [c0 EXCEPT !.st = "mockWait", !.procOut = son.processing]]
       [] route = "noEndpoint" ->
            LET s1 == ApplyEffect(s0, NoEndpointPath)
            IN [s |-> s1, c |-> Returned(c0, s1, NoEndpointPath)]
       [] OTHER ->
            [s |-> son,
             c |-> [c0 EXCEPT !.st = "fetching", !.net = @ + 1,
                              !.procOut = son.processing,
                              !.req = IF fd THEN "form" ELSE "json"]]

----------------------------------------------------------------------------
\* The inline tests of runTests (lines 105-121): how each judges the value r.
Test1Pass(r) == StartsWith(r, MockPrefix)
Test2Pass(r) == Includes(r, NoEndpointKey)

\* One entry of results: the try block's entry, or the catch block's when the
\* call threw (output is then String(e)).
TestResult(name, call, pass) ==
  [name |-> name, pass |-> (call.st = "done" /\ pass), output |-> call.ret]

\* The end of runTests and of the Run Tests handler, once Test 2 (call id2)
\* has returned: setTests(results); return; setProcessing(false).
FinishTests(s, cs, id1, id2) ==
  [s EXCEPT !.tests = << TestResult(Test1Name, cs[id1], Test1Pass(cs[id1].ret)),
                         TestResult(Test2Name, cs[id2], Test2Pass(cs[id2].ret)) >>,
            !.processing = FALSE]

Ended(call) == call.st \in {"done", "threw"}
InFlight(call) == call.st \in {"mockWait", "fetching", "readErr", "readJson"}

\* What runs, in the same turn, after call id has returned to the handler
\* that awaits it; n is the number of calls started so far.
\*   onRunMock / onCallEndpoint: nothing.
\*   runTests after Test 1: Test 2 is called, with the closure of the render
\*     in which Run Tests was pressed; if it returns at once, runTests ends.
\*   runTests after Test 2: runTests ends.
AfterReturn(s, cs, n, id) ==
  LET me == cs[id]
  IN IF me.role = "test1" THEN
       LET id2 == n + 1
           r   == StartCall(s, "test2", id, "false", me.um, me.ep, me.fd)
           cs2 == [cs EXCEPT ![id2] = r.c]
       IN IF Ended(r.c)
            THEN [s |-> FinishTests(r.s, cs2, id, id2), cs |-> cs2, n |-> id2]
            ELSE [s |-> r.s, cs |-> cs2, n |-> id2]
     ELSE IF me.role = "test2" THEN
       [s |-> FinishTests(s, cs, me.owner, id), cs |-> cs, n |-> n]
     ELSE [s |-> s, cs |-> cs, n |-> n]

\* The state after a turn: the store, calls and call count of r.
Commit(r) ==
  /\ processing' = r.s.processing
  /\ resultText' = r.s.resultText
  /\ lastError' = r.s.lastError
  /\ tests' = r.s.tests
  /\ utter' = r.s.utter
  /\ calls' = r.cs
  /\ ncalls' = r.n
  /\ solo' = IF r.n > ncalls
               THEN \A c \in CallIds : c # r.n => ~InFlight(r.cs[c])
               ELSE solo
  /\ UNCHANGED <<useMock, sendAsFormData, endpoint>>

\* Call ids that a pending runTests will still need for its Test 2.
Reserved == Cardinality({i \in CallIds : calls[i].role = "test1" /\ InFlight(calls[i])})

CanStart(k) == ncalls + Reserved + k <= MaxCalls

\* Variant: the handler does not await the call before it continues.
PressWithoutAwait(s, role, forceMock) ==
  LET id == ncalls + 1
      r  == StartCall(s, role, id, forceMock, useMock, endpoint, sendAsFormData)
      cs == [calls EXCEPT ![id] = r.c]
  IN AfterReturn(r.s, cs, id, id)

\* A handler calls analyzeImage with the closure of the current render.
PressWith(s, role, forceMock) ==
  LET id == ncalls + 1
      r  == StartCall(s, role, id, forceMock, useMock, endpoint, sendAsFormData)
      cs == [calls EXCEPT ![id] = r.c]
  IN IF Ended(r.c) THEN AfterReturn(r.s, cs, id, id)
     ELSE [s |-> r.s, cs |-> cs, n |-> id]

----------------------------------------------------------------------------
Init ==
  /\ useMock = DEFAULT_USE_MOCK_BACKEND
  /\ sendAsFormData \in BOOLEAN   \* DEFAULT_SEND_AS_FORMDATA, a build-time choice
  /\ endpoint = << >>
  /\ processing = FALSE
  /\ resultText = << >>
  /\ tests = << >>
  /\ lastError = Null
  /\ utter = << >>
  /\ calls = [i \in CallIds |-> IdleCall]
  /\ ncalls = 0
  /\ solo = TRUE

\* The Mock / Call Endpoint mode buttons (lines 145, 148).
SetUseMock(b) ==
  /\ useMock # b
  /\ useMock' = b
  /\ UNCHANGED <<sendAsFormData, endpoint, processing, resultText, tests,
                 lastError, utter, calls, ncalls, solo>>

\* The endpoint text field (line 158).
SetEndpoint(e) ==
  /\ endpoint # e
  /\ endpoint' = e
  /\ UNCHANGED <<useMock, sendAsFormData, processing, resultText, tests,
                 lastError, utter, calls, ncalls, solo>>

\* onRunMock (lines 128-130).
onRunMock ==
  /\ CanStart(1)
  /\ Commit(PressWith(Store, "mockBtn", "true"))

\* onCallEndpoint (lines 132-134).
onCallEndpoint ==
  /\ CanStart(1)
  /\ Commit(PressWith(Store, "endpointBtn", "false"))

\* The Run Tests button (line 178) up to the first await inside runTests:
\* setTests([]); setProcessing(true); runTests() { setTests([]); Test 1 ... }
onRunTests ==
  /\ CanStart(2)
  /\ Commit(PressWith([Store EXCEPT !.tests = << >>, !.processing = TRUE],
                      "test1", "true"))

\* Call c's path ends with effect eff; the awaiting handler continues.
Finish(c, eff) ==
  LET s1 == ApplyEffect(Store, eff)
      cs == [calls EXCEPT ![c] = Returned(calls[c], s1, eff)]
  IN Commit(AfterReturn(s1, cs, ncalls, c))

\* The 500 ms timer of the mock path fires (line 45).
MockTimer(c) ==
  /\ calls[c].st = "mockWait"
  /\ Finish(c, MockPathEnd)

\* fetch rejects (lines 70, 73): control reaches the catch block.
FetchRejects(c) ==
  /\ calls[c].st = "fetching"
  /\ Finish(c, LiveCatch(FetchRejected))

\* fetch resolves with a response (line 80): the body is read next, as text
\* when the status is not ok, as JSON otherwise.
FetchResolves(c, status) ==
  /\ calls[c].st = "fetching"
  /\ calls' = [calls EXCEPT ![c].st = IF RespOk(status) THEN "readJson" ELSE "readErr",
                            ![c].status = status]
  /\ UNCHANGED <<useMock, sendAsFormData, endpoint, processing, resultText, tests,
                 lastError, utter, ncalls, solo>>

\* resp.text() resolves with t (lines 81-82): the Error is thrown and caught.
TextResolves(c, t) ==
  /\ calls[c].st = "readErr"
  /\ Finish(c, LiveCatch(ServerError(calls[c].status, t)))

\* resp.text() rejects (line 81).
TextRejects(c) ==
  /\ calls[c].st = "readErr"
  /\ Finish(c, LiveCatch(BodyReadError))

\* resp.json() resolves with the parsed body (lines 84-89).
JsonResolves(c, json) ==
  /\ calls[c].st = "readJson"
  /\ Finish(c, LiveSuccess(json))

\* resp.json() rejects: the body is not JSON (line 84).
JsonRejects(c) ==
  /\ calls[c].st = "readJson"
  /\ Finish(c, LiveCatch(JsonParseError))

Next ==
  \/ \E b \in BOOLEAN : SetUseMock(b)
  \/ \E e \in Endpoints : SetEndpoint(e)
  \/ onRunMock
  \/ onCallEndpoint
  \/ onRunTests
  \/ \E c \in CallIds : MockTimer(c)
  \/ \E c \in CallIds : FetchRejects(c)
  \/ \E c \in CallIds, status \in Statuses : FetchResolves(c, status)
  \/ \E c \in CallIds, t \in ErrorBodies : TextResolves(c, t)
  \/ \E c \in CallIds : TextRejects(c)
  \/ \E c \in CallIds, json \in JsonBodies : JsonResolves(c, json)
  \/ \E c \in CallIds : JsonRejects(c)

Spec == Init /\ [][Next]_vars

\* The ways an awaited body read can settle, as the effect the call then has:
\* resp.text() (lines 81-82, 90-96) and resp.json() (lines 84-96).
TextOutcomes(status) ==
  {LiveCatch(ServerError(status, t)) : t \in ErrorBodies} \cup {LiveCatch(BodyReadError)}

JsonOutcomes ==
  {LiveSuccess(json) : json \in JsonBodies} \cup {LiveCatch(JsonParseError)}

\* Call c is resumed: the steps of MockTimer, FetchRejects, FetchResolves,
\* TextResolves, TextRejects, JsonResolves and JsonRejects for c, grouped by
\* the await at which c is suspended.
Settle(c) ==
  \/ /\ calls[c].st = "mockWait"
     /\ Finish(c, MockPathEnd)
  \/ /\ calls[c].st = "fetching"
     /\ \/ Finish(c, LiveCatch(FetchRejected))
        \/ \E status \in Statuses : FetchResolves(c, status)
  \/ /\ calls[c].st = "readErr"
     /\ \E eff \in TextOutcomes(calls[c].status) : Finish(c, eff)
  \/ /\ calls[c].st = "readJson"
     /\ \E eff \in JsonOutcomes : Finish(c, eff)

\* Timers fire and a pending fetch or body read settles: while a call is
\* suspended, one of the suspended calls is eventually resumed.  Button
\* presses are not forced.
FairSpec == Spec /\ WF_vars(\E c \in CallIds : Settle(c))

----------------------------------------------------------------------------
\* Vocabulary of the properties

Quiescent == \A c \in CallIds : ~InFlight(calls[c])

NumInFlight == Cardinality({c \in CallIds : InFlight(calls[c])})

\* The endpoint value a call that has just started read from its closure:
\* Test 2 of runTests reads the render in which Run Tests was pressed, a
\* button handler the current render.
ClosureEndpoint(d) == IF d.role = "test2" THEN calls[d.owner].ep ELSE endpoint

----------------------------------------------------------------------------
\* C1: a call analyzeImage(b, {forceMock: true}), whatever the endpoint, the
\* configured mock flag and the transport mode, never issues a network call;
\* it waits for nothing but the mock timer, which can always fire; and once
\* it has completed it has returned a string that begins with 'Mock:'.
C1_ForceMockReturnsMock ==
  \A c \in CallIds :
    calls[c].forceMock = "true" =>
      /\ calls[c].net = 0
      /\ calls[c].st \in {"mockWait", "done"}
      /\ calls[c].st = "mockWait" => ENABLED MockTimer(c)
      /\ calls[c].st = "done" => StartsWith(calls[c].ret, MockPrefix)

\* A forced-mock call has returned while live mode and an endpoint are configured.
C1_Witness ==
  \E c \in CallIds :
    /\ calls[c].forceMock = "true" /\ calls[c].st = "done"
    /\ ~useMock /\ endpoint # << >>

\* C2: a call analyzeImage(b, {forceMock: false}) that reads an empty
\* endpoint returns at once a string containing 'No endpoint configured',
\* issues no network call and leaves the processing flag as it found it.
C2_NoEndpointFrame ==
  [][ncalls' = ncalls + 1 =>
        LET d == calls'[ncalls'] IN
          (d.forceMock = "false" /\ ClosureEndpoint(d) = << >>) =>
            /\ d.st = "done"
            /\ Includes(d.ret, NoEndpointKey)
            /\ d.net = 0
            /\ d.procOut = d.procIn
            /\ d.role = "endpointBtn" => processing' = processing]_vars

\* The no-endpoint path has returned while another call keeps the flag set.
C2_Witness ==
  \E c \in CallIds :
    /\ calls[c].path = "noEndpoint" /\ calls[c].st = "done"
    /\ calls[c].procIn /\ calls[c].procOut /\ processing

\* C3: no call to analyzeImage ends by throwing: every call that has ended
\* ended with a string return value, on every path and after every failure
\* of fetch, of reading the error body and of parsing the JSON body.
C3_NeverThrows ==
  \A c \in CallIds :
    /\ calls[c].st # "threw"
    /\ calls[c].st = "done" => calls[c].ret # << >>

\* A JSON parse failure has been turned into a returned string.
C3_Witness ==
  \E c \in CallIds :
    /\ calls[c].st = "done" /\ calls[c].failed
    /\ calls[c].ret = FailedPrefix \o JsonParseError.message

\* C4 as stated: with HTTP 200, a body with a spoken_text string X returns
\* exactly X for every string X, a body with no spoken_text but a text field
\* returns that text, a body with neither returns the default, and the call
\* records no error.
SpokenAsClaimed(json) ==
  IF json.spoken_text.has THEN json.spoken_text.v
  ELSE IF json.text.has THEN json.text.v
  ELSE DefaultSpoken

C4_AsStated ==
  [][\A c \in CallIds, json \in JsonBodies :
       JsonResolves(c, json) =>
         /\ calls'[c].st = "done"
         /\ calls'[c].ret = SpokenAsClaimed(json)
         /\ ~calls'[c].failed
         /\ lastError' = lastError]_vars

\* C4 amended: X is returned for every non-empty spoken_text X; an absent or
\* empty spoken_text falls through to a non-empty text; when both are absent
\* or empty the default is returned; the call records no error.
SpokenAmended(json) ==
  IF json.spoken_text.has /\ json.spoken_text.v # << >> THEN json.spoken_text.v
  ELSE IF json.text.has /\ json.text.v # << >> THEN json.text.v
  ELSE DefaultSpoken

C4_Amended ==
  [][\A c \in CallIds, json \in JsonBodies :
       JsonResolves(c, json) =>
         /\ calls'[c].st = "done"
         /\ calls'[c].ret = SpokenAmended(json)
         /\ calls'[c].wrote = SpokenAmended(json)
         /\ ~calls'[c].failed
         /\ lastError' = lastError]_vars

\* A live call has returned the server's spoken_text and it is displayed.
C4_Witness ==
  \E c \in CallIds :
    /\ calls[c].path = "live" /\ calls[c].st = "done" /\ ~calls[c].failed
    /\ calls[c].ret = <<"X">> /\ resultText = <<"X">>

\* C5 as stated: whenever the endpoint answers with a non-success status the
\* call returns a failed result, the result text is the fixed failure
\* message, lastError carries the status code and the raw response body, and
\* exactly one network call was issued.
C5_AsStated ==
  [][\A c \in CallIds :
       (calls[c].st = "readErr" /\ calls'[c].st # "readErr") =>
         /\ calls'[c].st = "done" /\ calls'[c].failed
         /\ StartsWith(calls'[c].ret, FailedPrefix)
         /\ resultText' = FailedText
         /\ ~lastError'.null
         /\ Includes(lastError'.v, <<StatusText(calls[c].status)>>)
         /\ \A t \in ErrorBodies : TextResolves(c, t) => Includes(lastError'.v, t)
         /\ calls'[c].net = 1]_vars

\* C5 amended: the same, provided the response body can be read; when
\* reading it fails the call still returns the failed result after its one
\* network call, but lastError then holds the read error's description and
\* not the status code.
C5_Amended ==
  [][\A c \in CallIds :
       /\ \A t \in ErrorBodies :
            TextResolves(c, t) =>
              /\ calls'[c].st = "done" /\ calls'[c].failed
              /\ StartsWith(calls'[c].ret, FailedPrefix)
              /\ resultText' = FailedText
              /\ ~lastError'.null
              /\ Includes(lastError'.v, <<StatusText(calls[c].status)>>)
              /\ Includes(lastError'.v, t)
              /\ calls'[c].net = 1
       /\ TextRejects(c) =>
              /\ calls'[c].st = "done" /\ calls'[c].failed
              /\ StartsWith(calls'[c].ret, FailedPrefix)
              /\ resultText' = FailedText
              /\ lastError' = ErrVal(ErrString(BodyReadError))
              /\ ~Includes(lastError'.v, <<StatusText(calls[c].status)>>)
              /\ calls'[c].net = 1]_vars

\* An HTTP 500 with body "boom" has been turned into the failed result.
C5_Witness ==
  \E c \in CallIds :
    /\ calls[c].st = "done" /\ calls[c].failed /\ calls[c].status = 500
    /\ resultText = FailedText
    /\ lastError = ErrVal(<<"Error", ": ", "Server error ", "500", ": ", "boom">>)

\* C6 as stated: every completed call has handed exactly one string to the
\* speech sink: its mock string, the guidance message, the extracted text,
\* or, on the failure path, the fixed 'Analysis failed.' message; the error
\* detail is never spoken.
SpokenAnalysisFailed == <<"Analysis failed.">>

C6_AsStated ==
  \A c \in CallIds :
    calls[c].st = "done" =>
      /\ calls[c].said = << IF calls[c].failed THEN SpokenAnalysisFailed ELSE calls[c].ret >>
      /\ calls[c].path = "mock" => calls[c].said = << MockText >>
      /\ calls[c].path = "noEndpoint" => calls[c].said = << NoEndpointText >>

\* C7: every call that is suspended (on the mock timer, on fetch, on a body
\* read) eventually returns, also when others were started meanwhile; a
\* returned call keeps its own result; and whenever a call returns and leaves
\* nothing in flight, the shared result text is the text that call (the last
\* to complete) wrote, and stays so until the next call starts.
JustEnded == {c \in CallIds : ~Ended(calls[c]) /\ Ended(calls'[c])}

LastEnded ==
  IF ncalls' > ncalls /\ ncalls' \in JustEnded THEN ncalls'
  ELSE CHOOSE c \in JustEnded : TRUE

C7_OverlapLastWins ==
  /\ (~Quiescent) ~> (\A c \in CallIds : calls[c].st \in {"idle", "done"})
  /\ [][/\ \A c \in CallIds : Ended(calls[c]) => calls'[c] = calls[c]
        /\ (JustEnded # {} /\ Quiescent') => resultText' = calls'[LastEnded].wrote
        /\ calls' = calls => resultText' = resultText]_vars

\* Two calls overlapped and the one started first completed last: its text
\* is the one displayed.
C7_Witness ==
  /\ ncalls = 2 /\ Quiescent
  /\ calls[1].st = "done" /\ calls[2].st = "done"
  /\ calls[1].wrote # calls[2].wrote
  /\ resultText = calls[1].wrote

\* C8 as stated: at most one analysis request is in flight per App.
C8_AsStated == NumInFlight <= 1

\* C8 amended: at most one analysis request is in flight per button press
\* (handler invocation): Run Tests makes its two calls one after the other;
\* requests started by different presses may be in flight together.
C8_Amended ==
  \A h \in CallIds :
    Cardinality({c \in CallIds : InFlight(calls[c]) /\ calls[c].owner = h}) <= 1

\* Test 2 of a Run Tests press is in flight after its Test 1 has returned.
C8_Witness ==
  \E c \in CallIds :
    /\ calls[c].role = "test2" /\ InFlight(calls[c])
    /\ calls[calls[c].owner].st = "done"

\* C9: the mock path and the live path set processing when they begin and
\* clear it when they end, on success and on failure; so whenever no call
\* (hence no test run) is in flight, processing is false.
C9_ProcessingCleared ==
  /\ Quiescent => processing = FALSE
  /\ \A c \in CallIds :
       calls[c].path \in {"mock", "live"} =>
         /\ InFlight(calls[c]) => calls[c].procOut = TRUE
         /\ Ended(calls[c]) => calls[c].procOut = FALSE

\* A Run Tests press whose Test 2 went to the endpoint and failed is over.
C9_Witness ==
  /\ Quiescent
  /\ \E c \in CallIds : calls[c].role = "test2" /\ calls[c].failed

\* C10 as stated: whenever no call is in flight, lastError is non-null
\* exactly when the result text is the fixed failure message.
C10_AsStated ==
  Quiescent => ((~lastError.null) <=> (resultText = FailedText))

\* C10 amended: whenever no call is in flight and the call started last began
\* with no other call in flight, lastError is non-null exactly when that call
\* took the failure path, and the result text is then the fixed message.
C10_Amended ==
  (Quiescent /\ solo /\ ncalls > 0) =>
    /\ (~lastError.null) <=> calls[ncalls].failed
    /\ (~lastError.null) => resultText = FailedText

\* A failed call followed, after it returned, by one that failed again.
C10_Witness ==
  /\ Quiescent /\ solo /\ ncalls = 2
  /\ calls[1].failed /\ calls[2].failed /\ calls[2].role = "endpointBtn"
  /\ ~lastError.null

====
